---- MODULE Spec2Model ----
(***************************************************************************)
(* The task dispatch and result delivery subsystem of streameme_backend:   *)
(* request handlers submit analysis tasks through a VideoAnalyzerBuffer    *)
(* (std::sync::mpsc sender), one VideoAnalyzer worker thread receives them *)
(* one at a time, drives the external inference procedure and replies      *)
(* through the task's tokio oneshot channel.                               *)
(***************************************************************************)
EXTENDS Integers, Sequences, FiniteSets, TLC

\* ------------------------------------------------------------------ bounds

\* Number of upload requests (each submits at most one task).
MaxTasks == 2
\* Number of upload requests in the fair (liveness) specification.
MaxLiveTasks == 1
\* Longest parsed record sequence fed to the output conversion.
MaxRecords == 2

Reqs == 1..MaxTasks
LiveReqs == 1..MaxLiveTasks

\* ------------------------------------------------------- values and types

\* Option<T>: None is the empty sequence, Some(v) the one-element sequence.
None == <<>>
Some(v) == <<v>>
IsSome(o) == Len(o) = 1

\* enum VideoAnalyzerMode { Binary = 0, Multi = 1 }
VideoAnalyzerMode == {"Binary", "Multi"}

\* enum MemeType, as its u8 discriminants.
MemeType == 0..5

\* MemeTypeDesc::new : the label of a meme type.
MemeTypeDesc(m) ==
    CASE m = 0 -> "happiness"
      [] m = 1 -> "love"
      [] m = 2 -> "anger"
      [] m = 3 -> "sorrow"
      [] m = 4 -> "hate"
      [] m = 5 -> "surprise"

\* The match of the conversion's closure: Some(meme type) for the six known
\* labels, None (the `_ => return None` arm) for any other string.
MatchLabelDropsHate(label) ==
    CASE label = "happiness" -> Some(0)
      [] label = "love"      -> Some(1)
      [] label = "anger"     -> Some(2)
      [] label = "sorrow"    -> Some(3)
      [] label = "surprise"  -> Some(5)
      [] OTHER               -> None

MatchLabel(label) ==
    CASE label = "happiness" -> Some(0)
      [] label = "love"      -> Some(1)
      [] label = "anger"     -> Some(2)
      [] label = "sorrow"    -> Some(3)
      [] label = "hate"      -> Some(4)
      [] label = "surprise"  -> Some(5)
      [] OTHER               -> None

\* VideoAnalyzerSuggestion::new
NewSuggestion(start, end, meme_type) ==
    [start |-> start, end |-> end, meme_type |-> meme_type,
     meme_type_desc |-> MemeTypeDesc(meme_type)]

\* The filter_map closure applied to one unit: Option<VideoAnalyzerSuggestion>.
FilterMapUnit(unit) ==
    LET m == MatchLabel(unit.suggestion)
    IN  IF IsSome(m) THEN Some(NewSuggestion(unit.start, unit.end, m[1]))
        ELSE None

\* into_iter().filter_map(..).collect() : the units in order, the None ones left out.
RECURSIVE FilterMapCollect(_)
FilterMapCollect(units) ==
    IF units = <<>> THEN <<>>
    ELSE FilterMapUnit(Head(units)) \o FilterMapCollect(Tail(units))

\* An empty suggestion list is folded into None.
OutputFromVecEmptyIsNone(suggestions) ==
    IF suggestions = <<>> THEN None ELSE Some(suggestions)

\* impl From<Vec<VideoAnalyzerSuggestion>> for VideoAnalyzerOutput : Self(Some(v)).
OutputFromVec(suggestions) == Some(suggestions)

\* impl From<InferenceOutput> for VideoAnalyzerOutput.
OutputFromInference(units) == OutputFromVec(FilterMapCollect(units))

\* VideoAnalyzerOutput::default() : Self(None).
OutputDefault == None

\* The labels the external procedure may write: the six known ones and one
\* that is not in the enumeration.
Labels == {"happiness", "love", "anger", "sorrow", "hate", "surprise", "confusion"}
\* Segment bounds the external procedure may write (start may exceed end:
\* nothing in the conversion compares them).
StartValues == {0, 5, 9}
EndValues == {5, 9}
\* One record of the result file (a unit of InferenceOutput).
InferenceUnits == [start : StartValues, end : EndValues, suggestion : Labels]

RECURSIVE SeqsUpTo(_, _)
SeqsUpTo(S, n) ==
    IF n = 0 THEN {<<>>}
    ELSE LET shorter == SeqsUpTo(S, n - 1)
         IN  shorter \cup {Append(s, x) : s \in {t \in shorter : Len(t) = n - 1}, x \in S}

\* ------------------------------------------------------------ task values

\* What one upload request puts in its TaskConfig: the uploaded file's path
\* (one per request), its name and the mode of the form's metadata.
FormMode(r) == IF r % 2 = 1 THEN "Binary" ELSE "Multi"
FormName(r) == IF r = 1 THEN "_anonymous" ELSE "clip"

\* TaskConfig::build : the Task of request r.
BuildTask(r) ==
    [video_path |-> r, video_name |-> FormName(r), analyze_mode |-> FormMode(r)]

\* struct SpawnedTask { task, sender } : the sender half is named by the
\* request whose Task::spawn created the oneshot channel.
NewSpawnedTask(task, tx) == [task |-> task, sender |-> tx]

\* io::Result<VideoAnalyzerOutput>, with the task it was computed for.
OkOutcome(output, r) == [ok |-> TRUE, output |-> output, err |-> "", of |-> r]
ErrOutcome(kind, r) == [ok |-> FALSE, output |-> None, err |-> kind, of |-> r]
NoOutcome == [ok |-> FALSE, output |-> None, err |-> "unset", of |-> 0]

\* The analysis mode is passed on to the external procedure.
CommandArgsWithMode(task, out_dir) ==
    <<"inference.py", "--video_path", task.video_path,
      "--video_name", task.video_name, "--output_dir", out_dir,
      "--mode", task.analyze_mode>>

\* The arguments of the external command.
CommandArgs(task, out_dir) ==
    <<"inference.py", "--video_path", task.video_path,
      "--video_name", task.video_name, "--output_dir", out_dir>>

\* Contents of suggestions.json in a scratch directory.
FileAbsent == [kind |-> "absent", units |-> <<>>]
FileMalformed == [kind |-> "malformed", units |-> <<>>]
FileJson(units) == [kind |-> "json", units |-> units]
SampleUnits ==
    <<[start |-> 0, end |-> 5, suggestion |-> "anger"],
      [start |-> 5, end |-> 9, suggestion |-> "confusion"]>>
\* What the external procedure may leave behind when it exits with success ...
SuccessFiles == {FileAbsent, FileMalformed, FileJson(<<>>), FileJson(SampleUnits)}
\* ... and when it exits with a failure status.
FailureFiles == {FileAbsent, FileJson(SampleUnits)}
NoDir == [exists |-> FALSE, file |-> FileAbsent]
\* What the external procedure did for a task (nothing yet).
NoRun == [event |-> "none", status |-> 0, file |-> FileAbsent]

\* ------------------------------------------------------------------ state

VARIABLES
    req,        \* per request: the handler's position, what recv gave, the task handed back
    queue,      \* the mpsc channel: SpawnedTasks sent and not yet received
    bufAlive,   \* the VideoAnalyzerBuffer (the only mpsc sender) is not dropped
    worker,     \* the VideoAnalyzer: position in run/analyze and its locals
    slot,       \* per request: its oneshot channel
    dir,        \* per request: the scratch directory of its invocation
    procs,      \* external processes running now
    accepted,   \* history: requests in the order the queue accepted them
    invoked,    \* history: requests in the order the external procedure was started
    ext,        \* history: what the environment did for each task
    convIn,     \* conversion harness: the parsed units
    convOut,    \* conversion harness: the converted output
    convDone    \* conversion harness: the conversion was applied

vars == <<req, queue, bufAlive, worker, slot, dir, procs, accepted, invoked, ext,
          convIn, convOut, convDone>>
sysVars == <<req, queue, bufAlive, worker, slot, dir, procs, accepted, invoked, ext>>
convVars == <<convIn, convOut, convDone>>

\* State right after VideoAnalyzer::new(): both channel halves exist, nothing sent.
SysInit ==
    /\ req = [r \in Reqs |-> [st |-> "new", got |-> NoOutcome, back |-> None]]
    /\ queue = <<>>
    /\ bufAlive = TRUE
    /\ worker = [pc |-> "notstarted", cur |-> {}, out_dir |-> None,
                 status |-> 0, ret |-> NoOutcome]
    /\ slot = [r \in Reqs |-> [st |-> "unused", val |-> NoOutcome, sends |-> 0]]
    /\ dir = [r \in Reqs |-> NoDir]
    /\ procs = {}
    /\ accepted = <<>>
    /\ invoked = <<>>
    /\ ext = [r \in Reqs |-> NoRun]

ConvIdle ==
    /\ convIn = <<>>
    /\ convOut = None
    /\ convDone = FALSE

Init == SysInit /\ ConvIdle

\* ------------------------------------------------------- channel helpers

\* The mpsc receiver (VideoAnalyzer.scheduled) still exists: it is dropped when
\* the VideoAnalyzer is dropped unrun, and when run returns.
ReceiverAlive == worker.pc \notin {"dropped", "terminated"}

\* A sync_channel(1) in place of channel(): send waits while a task is queued.
ChannelHasRoomBounded(q) == Len(q) < 1

\* mpsc::channel() is unbounded: a send never waits for room.
ChannelHasRoom(q) == TRUE

\* mpsc::Sender::send succeeds whatever the receiver's state.
BufferSendOkAlways == TRUE

\* VideoAnalyzerBuffer::send : Ok unless the receiver is disconnected.
BufferSendOk == ReceiverAlive

\* The worker takes a task while an invocation is still running.
CanRecvWhileRunning == worker.pc \in {"recv", "running"}

\* run's loop: recv is called only between iterations.
CanRecv == worker.pc = "recv"

\* recv hands out the most recently sent task.
RecvPickLast(q) == Len(q)

\* mpsc::Receiver::recv : the oldest message of the channel.
RecvPick(q) == 1

RemoveAt(q, i) == SubSeq(q, 1, i - 1) \o SubSeq(q, i + 1, Len(q))

\* The reply goes to the oldest slot still waiting.
ReplyTargetOldestPending(t) ==
    IF \E r \in Reqs : slot[r].st = "pending"
    THEN CHOOSE r \in Reqs : slot[r].st = "pending" /\
                             \A o \in Reqs : slot[o].st = "pending" => r <= o
    ELSE t.sender

\* SpawnedTask::send : self.sender.send(output), the sender spawn paired with the task.
ReplyTarget(t) == t.sender

\* The SpawnedTask is dropped at the end of the iteration with nothing sent.
OneshotSendDrops(c, v) == [slot EXCEPT ![c].st = "closed"]

\* oneshot::Sender::send on slot c: the value is stored unless the receiver is
\* gone, and then it is handed back (and dropped by `let _ =`).
OneshotSend(c, v) ==
    IF req[c].st = "awaiting" /\ slot[c].st = "pending"
    THEN [slot EXCEPT ![c] = [st |-> "sent", val |-> v, sends |-> @.sends + 1]]
    ELSE IF slot[c].st = "sent"
    THEN [slot EXCEPT ![c].val = v, ![c].sends = IF @ < 2 THEN @ + 1 ELSE @]
    ELSE [slot EXCEPT ![c].st = "closed"]

\* The queued SpawnedTasks are leaked with the receiver: no sender is dropped.
DropSendersLeaks(q) == slot

\* Dropping queued SpawnedTasks drops their oneshot senders unsent.
DropSenders(q) ==
    [c \in Reqs |->
        IF \E i \in 1..Len(q) : q[i].sender = c
        THEN [slot[c] EXCEPT !.st = "closed"]
        ELSE slot[c]]

\* `task.send(output).unwrap()`: the worker thread panics when the handle of
\* slot c is gone.
AfterSendUnwraps(c) ==
    IF req[c].st = "awaiting" /\ slot[c].st = "pending" THEN "recv" ELSE "panicked"

\* run: `let _ = task.send(output);` the Result of the send is discarded and
\* the loop goes back to recv, whether the value was stored or handed back.
AfterSend(c) == "recv"

\* The TempDir is persisted (keep) instead of dropped: nothing is removed.
RemoveDirKeeps(out_dir) == dir

\* TempDir's Drop: the scratch directory named by out_dir is removed.
RemoveDir(out_dir) ==
    IF IsSome(out_dir) THEN [dir EXCEPT ![out_dir[1]] = NoDir] ELSE dir

\* ---------------------------------------------------------------- handlers

\* Task::spawn, as called by upload_video for request r.
Submit(r) ==
    /\ req[r].st = "new"
    /\ bufAlive
    /\ ChannelHasRoom(queue)
    /\ LET task == BuildTask(r)
           spawned == NewSpawnedTask(task, r)
       IN  IF BufferSendOk
           THEN /\ queue' = Append(queue, spawned)
                /\ slot' = [slot EXCEPT ![r].st = "pending"]
                /\ req' = [req EXCEPT ![r].st = "awaiting"]
                /\ accepted' = Append(accepted, r)
           ELSE /\ req' = [req EXCEPT ![r].st = "rejected", ![r].back = Some(task)]
                /\ slot' = [slot EXCEPT ![r].st = "closed"]
                /\ UNCHANGED <<queue, accepted>>
    /\ UNCHANGED <<bufAlive, worker, dir, procs, invoked, ext, convVars>>

\* SpawnedTaskHandle::recv completing for request r.
Resolve(r) ==
    /\ req[r].st = "awaiting"
    /\ slot[r].st \in {"sent", "closed"}
    /\ IF slot[r].st = "sent"
       THEN /\ req' = [req EXCEPT ![r].st = "resolved", ![r].got = slot[r].val]
            /\ slot' = [slot EXCEPT ![r].st = "taken"]
       ELSE /\ req' = [req EXCEPT ![r].st = "recv_error"]
            /\ UNCHANGED slot
    /\ UNCHANGED <<queue, bufAlive, worker, dir, procs, accepted, invoked, ext, convVars>>

\* Dropping the handle cancels the task: its running external procedure is
\* killed.
AbandonPreempts(r) ==
    /\ req[r].st = "awaiting"
    /\ req' = [req EXCEPT ![r].st = "abandoned"]
    /\ slot' = [slot EXCEPT ![r].st = IF @ = "sent" THEN "closed" ELSE @,
                            ![r].val = NoOutcome]
    /\ procs' = {p \in procs : p.of # r}
    /\ UNCHANGED <<queue, bufAlive, worker, dir, accepted, invoked, ext, convVars>>

\* The handler's future is dropped while it awaits: the handle goes with it.
Abandon(r) ==
    /\ req[r].st = "awaiting"
    /\ req' = [req EXCEPT ![r].st = "abandoned"]
    /\ slot' = [slot EXCEPT ![r].st = IF @ = "sent" THEN "closed" ELSE @,
                            ![r].val = NoOutcome]
    /\ UNCHANGED <<queue, bufAlive, worker, dir, procs, accepted, invoked, ext, convVars>>

\* The VideoAnalyzerBuffer is dropped (the server shuts down).
DropBuffer ==
    /\ bufAlive
    /\ bufAlive' = FALSE
    /\ UNCHANGED <<req, queue, worker, slot, dir, procs, accepted, invoked, ext, convVars>>

\* ------------------------------------------------- classifying an outcome

\* The error is swallowed and an empty Output returned in its place.
PropagateSwallowed(kind, r) == OkOutcome(OutputDefault, r)

\* The `?` operator in analyze: the io::Error becomes analyze's Err.
Propagate(kind, r) == ErrOutcome(kind, r)

\* A result file that cannot be read or parsed counts as "no suggestions".
ParseResultLenient(file, r) ==
    IF file.kind = "json" THEN OkOutcome(OutputFromInference(file.units), r)
    ELSE OkOutcome(OutputDefault, r)

\* analyze, success branch: read_to_string(..)?, serde_json::from_str(..)?,
\* then Ok(VideoAnalyzerOutput::from(inference_output)).
ParseResult(file, r) ==
    IF file.kind = "absent" THEN Propagate("NotFound", r)
    ELSE IF file.kind = "malformed" THEN Propagate("InvalidData", r)
    ELSE OkOutcome(OutputFromInference(file.units), r)

\* A non-zero exit is reported as an error.
ClassifyStrict(status, file, r) ==
    IF status = 0 THEN ParseResult(file, r) ELSE ErrOutcome("Other", r)

\* analyze: `if output.status.success() { .. } else { .. Ok(default()) }`.
Classify(status, file, r) ==
    IF status = 0 THEN ParseResult(file, r) ELSE OkOutcome(OutputDefault, r)

\* ------------------------------------------------------------------ worker

\* `Self::analyze(task.task()).unwrap()`: the worker thread panics on an Err.
AfterAnalyzeUnwraps(ret) == IF ret.ok THEN "send" ELSE "panicked"

\* run: `let output = Self::analyze(task.task());` the io::Result is kept as
\* it is, Ok or Err, and the loop body goes on to the send.
AfterAnalyze(ret) == "send"

\* recv leaves the received task in the channel.
AfterRecvKeeps(q) == q

\* mpsc::Receiver::recv removes the message it returns.
AfterRecv(q) == RemoveAt(q, RecvPick(q))

\* main: thread::spawn(move || analyzer.run()).
Run ==
    /\ worker.pc = "notstarted"
    /\ worker' = [worker EXCEPT !.pc = "recv"]
    /\ UNCHANGED <<req, queue, bufAlive, slot, dir, procs, accepted, invoked, ext, convVars>>

\* The VideoAnalyzer returned by new() is dropped without being run: the
\* receiver goes, and with it every task still in the channel.
DropAnalyzer ==
    /\ worker.pc = "notstarted"
    /\ worker' = [worker EXCEPT !.pc = "dropped"]
    /\ slot' = DropSenders(queue)
    /\ queue' = <<>>
    /\ UNCHANGED <<req, bufAlive, dir, procs, accepted, invoked, ext, convVars>>

\* The loop looks at the received task's sender and skips the task when its
\* handle is already gone (`if task.sender.is_closed() { continue }`).
WorkerRecvSkipsClosed ==
    /\ CanRecv
    /\ queue # <<>>
    /\ LET t == queue[RecvPick(queue)]
       IN  IF req[t.sender].st = "abandoned"
           THEN /\ slot' = [slot EXCEPT ![t.sender].st = "closed"]
                /\ UNCHANGED worker
           ELSE /\ worker' = [worker EXCEPT !.pc = "tempdir",
                                            !.cur = @ \cup {t},
                                            !.out_dir = None, !.status = 0,
                                            !.ret = NoOutcome]
                /\ UNCHANGED slot
    /\ queue' = AfterRecv(queue)
    /\ UNCHANGED <<req, bufAlive, dir, procs, accepted, invoked, ext, convVars>>

\* run: `while let Ok(task) = self.scheduled.recv()` yields a task.
WorkerRecv ==
    /\ CanRecv
    /\ queue # <<>>
    /\ worker' = [worker EXCEPT !.pc = "tempdir",
                                !.cur = @ \cup {queue[RecvPick(queue)]},
                                !.out_dir = None, !.status = 0, !.ret = NoOutcome]
    /\ queue' = AfterRecv(queue)
    /\ UNCHANGED <<req, bufAlive, slot, dir, procs, accepted, invoked, ext, convVars>>

\* run polls with try_recv: it returns as soon as the channel is empty, the
\* sender dropped or not.
WorkerExitEager ==
    /\ worker.pc = "recv"
    /\ queue = <<>>
    /\ worker' = [worker EXCEPT !.pc = "terminated"]
    /\ UNCHANGED <<req, queue, bufAlive, slot, dir, procs, accepted, invoked, ext, convVars>>

\* run: recv returns Err (channel empty and the sender dropped); run returns
\* and the receiver is dropped.
WorkerExit ==
    /\ worker.pc = "recv"
    /\ queue = <<>>
    /\ ~bufAlive
    /\ worker' = [worker EXCEPT !.pc = "terminated"]
    /\ UNCHANGED <<req, queue, bufAlive, slot, dir, procs, accepted, invoked, ext, convVars>>

\* analyze: `let out_dir = TempDir::new_in(".")?`.
CreateTempDir ==
    /\ worker.pc = "tempdir"
    /\ \E t \in worker.cur :
         LET r == t.task.video_path
         IN \/ /\ dir' = [dir EXCEPT ![r] = [exists |-> TRUE, file |-> FileAbsent]]
               /\ worker' = [worker EXCEPT !.pc = "canonicalize", !.out_dir = Some(r)]
               /\ UNCHANGED ext
            \/ /\ worker' = [worker EXCEPT
                                 !.pc = AfterAnalyze(Propagate("PermissionDenied", r)),
                                 !.ret = Propagate("PermissionDenied", r)]
               /\ ext' = [ext EXCEPT ![r].event = "tempdir_failed"]
               /\ UNCHANGED dir
    /\ UNCHANGED <<req, queue, bufAlive, slot, procs, accepted, invoked, convVars>>

\* analyze: `let command_dir = std::fs::canonicalize("../streameme_inference")?`.
Canonicalize ==
    /\ worker.pc = "canonicalize"
    /\ \E t \in worker.cur :
         LET r == t.task.video_path
         IN \/ /\ worker' = [worker EXCEPT !.pc = "spawn"]
               /\ UNCHANGED <<dir, ext>>
            \/ /\ worker' = [worker EXCEPT
                                 !.pc = AfterAnalyze(Propagate("NotFound", r)),
                                 !.out_dir = None,
                                 !.ret = Propagate("NotFound", r)]
               /\ dir' = RemoveDir(worker.out_dir)
               /\ ext' = [ext EXCEPT ![r].event = "cwd_unresolved"]
    /\ UNCHANGED <<req, queue, bufAlive, slot, procs, accepted, invoked, convVars>>

\* analyze: Command::new(..).output() starts the external procedure, or fails to.
SpawnCommand ==
    /\ worker.pc = "spawn"
    /\ \E t \in worker.cur :
         LET r == t.task.video_path
         IN \/ /\ procs' = procs \cup
                      {[of |-> r, args |-> CommandArgs(t.task, worker.out_dir[1])]}
               /\ worker' = [worker EXCEPT !.pc = "running"]
               /\ invoked' = Append(invoked, r)
               /\ ext' = [ext EXCEPT ![r].event = "started"]
               /\ UNCHANGED dir
            \/ /\ worker' = [worker EXCEPT
                                 !.pc = AfterAnalyze(Propagate("NotFound", r)),
                                 !.out_dir = None,
                                 !.ret = Propagate("NotFound", r)]
               /\ dir' = RemoveDir(worker.out_dir)
               /\ ext' = [ext EXCEPT ![r].event = "spawn_failed"]
               /\ UNCHANGED <<procs, invoked>>
    /\ UNCHANGED <<req, queue, bufAlive, slot, accepted, convVars>>

\* analyze: output() returns: the external procedure has exited, with a status
\* and with whatever it left in the scratch directory.
ProcessExit ==
    /\ worker.pc = "running"
    /\ \E p \in procs :
         /\ \E t \in worker.cur : t.task.video_path = p.of
         /\ \E status \in {0, 1} :
              \E file \in (IF status = 0 THEN SuccessFiles ELSE FailureFiles) :
                /\ procs' = procs \ {p}
                /\ dir' = [dir EXCEPT ![p.args[7]].file = file]
                /\ worker' = [worker EXCEPT !.pc = "classify", !.status = status]
                /\ ext' = [ext EXCEPT ![p.of] =
                              [event |-> "exited", status |-> status, file |-> file]]
    /\ UNCHANGED <<req, queue, bufAlive, slot, accepted, invoked, convVars>>

\* A failure exit is retried: the invocation starts over with a new scratch
\* directory instead of returning.
ClassifyExitRetries ==
    /\ worker.pc = "classify"
    /\ \E t \in worker.cur :
         /\ worker.out_dir = Some(t.task.video_path)
         /\ IF worker.status = 0
            THEN worker' = [worker EXCEPT
                   !.pc = "send", !.out_dir = None,
                   !.ret = Classify(worker.status, dir[worker.out_dir[1]].file,
                                    t.task.video_path)]
            ELSE worker' = [worker EXCEPT !.pc = "tempdir", !.out_dir = None]
    /\ dir' = RemoveDir(worker.out_dir)
    /\ UNCHANGED <<req, queue, bufAlive, slot, procs, accepted, invoked, ext, convVars>>

\* analyze: the branch on output.status, the return, and out_dir's drop.
ClassifyExit ==
    /\ worker.pc = "classify"
    /\ \E t \in worker.cur :
         /\ worker.out_dir = Some(t.task.video_path)
         /\ LET ret == Classify(worker.status, dir[worker.out_dir[1]].file,
                                t.task.video_path)
            IN  worker' = [worker EXCEPT
                   !.pc = AfterAnalyze(ret), !.out_dir = None, !.ret = ret]
    /\ dir' = RemoveDir(worker.out_dir)
    /\ UNCHANGED <<req, queue, bufAlive, slot, procs, accepted, invoked, ext, convVars>>

\* run: `let _ = task.send(output);` and the end of the iteration.
Send ==
    /\ worker.pc = "send"
    /\ \E t \in worker.cur :
         /\ worker.ret.of = t.task.video_path
         /\ slot' = OneshotSend(ReplyTarget(t), worker.ret)
         /\ worker' = [worker EXCEPT !.pc = AfterSend(ReplyTarget(t)),
                                     !.cur = @ \ {t},
                                     !.status = 0, !.ret = NoOutcome]
    /\ UNCHANGED <<req, queue, bufAlive, dir, procs, accepted, invoked, ext, convVars>>

\* ----------------------------------------------------------- specifications

WorkerStep ==
    \/ WorkerRecv
    \/ WorkerExit
    \/ CreateTempDir
    \/ Canonicalize
    \/ SpawnCommand
    \/ ProcessExit
    \/ ClassifyExit
    \/ Send

Next ==
    \/ \E r \in Reqs : Submit(r)
    \/ \E r \in Reqs : Resolve(r)
    \/ \E r \in Reqs : Abandon(r)
    \/ DropBuffer
    \/ Run
    \/ DropAnalyzer
    \/ WorkerStep

Spec == Init /\ [][Next]_vars

\* The same system with MaxLiveTasks submitting requests, the worker thread
\* scheduled fairly, the external procedure terminating and every awaited
\* handle polled.
LiveNext ==
    \/ \E r \in LiveReqs : Submit(r)
    \/ \E r \in LiveReqs : Resolve(r)
    \/ \E r \in LiveReqs : Abandon(r)
    \/ DropBuffer
    \/ Run
    \/ DropAnalyzer
    \/ WorkerStep

LiveSpec ==
    /\ Init
    /\ [][LiveNext]_vars
    /\ WF_vars(WorkerStep)
    /\ \A r \in LiveReqs : WF_vars(Resolve(r))

\* The output conversion applied to every parsed record sequence of up to
\* MaxRecords records.
ConvInit ==
    /\ SysInit
    /\ convIn \in SeqsUpTo(InferenceUnits, MaxRecords)
    /\ convOut = None
    /\ convDone = FALSE

Convert ==
    /\ ~convDone
    /\ convOut' = OutputFromInference(convIn)
    /\ convDone' = TRUE
    /\ UNCHANGED <<convIn, sysVars>>

ConvNext == Convert

ConvSpec == ConvInit /\ [][ConvNext]_vars

\* ------------------------------------------------------- shared vocabulary

\* The worker loop is running (run was entered and has not returned).
WorkerAlive == worker.pc \notin {"notstarted", "dropped", "terminated"}
Held(r) == \E t \in worker.cur : t.sender = r
Queued(r) == \E i \in 1..Len(queue) : queue[i].sender = r
\* The handle of r is being awaited.
Awaiting(r) == req[r].st = "awaiting"
\* The handle of r has resolved: with a value, or with the dropped-sender signal.
Resolved(r) == req[r].st \in {"resolved", "recv_error"}
IoErrorKinds == {"NotFound", "PermissionDenied", "InvalidData"}
TerminalErrors(r) == {ErrOutcome(k, r) : k \in IoErrorKinds}

\* The status of the response `output?` turns an io::Error into: the handler
\* returns actix_web::error::Error, so the conversion is actix-web's
\* ResponseError for std::io::Error.
IoErrorStatus(kind) ==
    CASE kind = "NotFound" -> 404
      [] kind = "PermissionDenied" -> 403
      [] OTHER -> 500

NoResponse == [status |-> 0, body |-> None]

\* upload_video's response for request r, once the handler has returned.
Response(r) ==
    CASE req[r].st = "rejected" -> [status |-> 500, body |-> None]
      [] req[r].st = "recv_error" -> [status |-> 500, body |-> None]
      [] req[r].st = "resolved" /\ req[r].got.ok ->
            [status |-> 200, body |-> Some(req[r].got.output)]
      [] req[r].st = "resolved" /\ ~req[r].got.ok ->
            [status |-> IoErrorStatus(req[r].got.err), body |-> None]
      [] OTHER -> NoResponse

\* ----------------------------------------------------------------- claims

\* C1 (safety part): at most one value is ever sent into a task's Result Slot,
\* and a handle that has resolved ended with exactly one of the two: the value
\* that was sent (exactly one send), or the dropped-sender signal (no send).
C1_ExactlyOnce ==
    \A r \in Reqs :
        /\ slot[r].sends <= 1
        /\ req[r].st = "resolved" =>
              /\ slot[r].sends = 1
              /\ req[r].got # NoOutcome
              /\ slot[r].st = "taken"
        /\ req[r].st = "recv_error" =>
              /\ slot[r].sends = 0
              /\ req[r].got = NoOutcome
        /\ req[r].st \notin {"resolved"} => req[r].got = NoOutcome

\* C1 (liveness part): a handle awaited while the worker loop is alive
\* eventually resolves (or is given up by its owner, who dropped it).
C1_EventuallyResolves ==
    \A r \in LiveReqs :
        (WorkerAlive /\ Awaiting(r)) ~> (Resolved(r) \/ req[r].st = "abandoned")

\* C1: every task submitted while the worker loop is alive gets its handle
\* resolved, and resolved exactly once: one value at most is sent into its
\* slot and the receiver ends with that value or with the dropped-sender
\* signal, never with both and never with neither.
C1_ResolvesExactlyOnce == []C1_ExactlyOnce /\ C1_EventuallyResolves

\* C1 witness: a task accepted by a running worker has resolved with its value.
C1_Witness ==
    \E r \in LiveReqs :
        /\ req[r].st = "resolved"
        /\ ext[r].event = "exited"
        /\ worker.pc = "recv"

\* The worker has taken r from the queue (it holds it, or the environment
\* has already answered one of analyze's calls for it).
Began(r) == Held(r) \/ ext[r].event # "none"
\* The whole iteration for r is over: analysed, replied, nothing of it left.
Finished(r) ==
    /\ ~Held(r)
    /\ ~Queued(r)
    /\ ext[r].event \notin {"none", "started"}
    /\ \A p \in procs : p.of # r
    /\ slot[r].st \in {"sent", "taken", "closed"}
\* The external procedure's run for r is over (it exited, or never started).
InvocationOver(r) ==
    /\ ext[r].event \notin {"none", "started"}
    /\ \A p \in procs : p.of # r

\* C2: tasks are executed in the order the queue accepted them: the queue
\* holds exactly the accepted tasks not yet taken, in acceptance order; the
\* external procedure is started in acceptance order; and when the worker has
\* begun a task, every task accepted before it is completely finished.
C2_FifoOrder ==
    /\ [i \in 1..Len(queue) |-> queue[i].sender] =
           SubSeq(accepted, Len(accepted) - Len(queue) + 1, Len(accepted))
    /\ \A i, j \in 1..Len(accepted) :
           (i < j /\ Began(accepted[j])) => Finished(accepted[i])
    /\ \A i, j \in 1..Len(invoked) :
           i < j => \E a, b \in 1..Len(accepted) :
                       /\ a < b
                       /\ accepted[a] = invoked[i]
                       /\ accepted[b] = invoked[j]
                       /\ InvocationOver(invoked[i])

\* C2 witness: request 2 was accepted before request 1 by concurrent callers,
\* and the external procedure ran for both, in that order.
C2_Witness ==
    /\ accepted = <<2, 1>>
    /\ invoked = <<2, 1>>
    /\ ext[1].event = "exited"

\* C3: at most one task is in flight: the worker holds at most one task and
\* at most one external process runs, and it runs for the task the worker holds.
C3_OneInFlight ==
    /\ Cardinality(worker.cur) <= 1
    /\ Cardinality(procs) <= 1
    /\ \A p \in procs : Held(p.of) /\ worker.pc = "running"

\* C3 witness: the external procedure runs for one task while another task,
\* submitted concurrently, waits in the queue.
C3_Witness ==
    /\ Cardinality(procs) = 1
    /\ Len(queue) = 1
    /\ \A r \in Reqs : Awaiting(r)

\* C4: a submit made after the queue's consumer has shut down is rejected:
\* the Task comes back to the caller, nothing is enqueued and no handle (no
\* pending slot) exists; a submit made in any other state enqueues the task
\* with its fresh sender at the tail and leaves the caller awaiting its handle.
C4_DispatchClosed ==
    [][\A r \in Reqs :
          (req[r].st = "new" /\ req'[r].st # "new") =>
             IF worker.pc \in {"dropped", "terminated"}
             THEN /\ req'[r].st = "rejected"
                  /\ req'[r].back = Some(BuildTask(r))
                  /\ queue' = queue
                  /\ accepted' = accepted
                  /\ slot'[r].st = "closed"
             ELSE /\ req'[r].st = "awaiting"
                  /\ req'[r].back = None
                  /\ queue' = Append(queue, [task |-> BuildTask(r), sender |-> r])
                  /\ slot'[r].st = "pending"]_vars

\* C4 witness: one submit was accepted, then the consumer went away and a
\* second submit was rejected with its Task handed back.
C4_Witness ==
    /\ req[2].st = "rejected"
    /\ req[2].back = Some(BuildTask(2))
    /\ req[1].st = "recv_error"
    /\ accepted = <<1>>

\* The handler of r has returned (or was dropped).
HandlerDone(r) == req[r].st \in {"resolved", "recv_error", "rejected", "abandoned"}

\* C5: submission never blocks: while the worker loop is alive, a caller that
\* is about to submit can take its submit step at once, however many tasks
\* wait in the queue and whatever the worker is doing; and a handler that can
\* take no step is waiting on its handle, whose slot is still empty (or never
\* got to submit because the buffer is gone).
C5_SubmitNeverBlocks ==
    \A r \in Reqs :
        /\ (WorkerAlive /\ bufAlive /\ req[r].st = "new") => ENABLED Submit(r)
        /\ (~HandlerDone(r) /\ ~ENABLED Submit(r) /\ ~ENABLED Resolve(r)) =>
              \/ Awaiting(r) /\ slot[r].st = "pending"
              \/ req[r].st = "new" /\ ~bufAlive

\* C5 witness: a caller is about to submit while a task waits in the queue.
C5_Witness ==
    /\ WorkerAlive
    /\ Len(queue) >= 1
    /\ \E r \in Reqs : req[r].st = "new" /\ bufAlive

\* The handles that received, and the slots that hold, the outcome computed for r.
Receivers(r) == {o \in Reqs : req[o].st = "resolved" /\ req[o].got.of = r}
Holders(r) == {o \in Reqs : slot[o].st = "sent" /\ slot[o].val.of = r}

\* C6: an outcome is delivered only to the handle of the task it was computed
\* for: what a slot holds and what a handle received were computed for that
\* very request, and once the worker has finished a task whose submitter still
\* waits, its outcome is in exactly one place: that submitter's slot or hands.
C6_OwnOutcome ==
    \A r \in Reqs :
        /\ slot[r].st = "sent" => slot[r].val.of = r
        /\ req[r].st = "resolved" => req[r].got.of = r
        /\ Receivers(r) \cup Holders(r) \subseteq {r}
        /\ Receivers(r) \cap Holders(r) = {}
        /\ (Finished(r) /\ req[r].st # "abandoned") =>
               Receivers(r) \cup Holders(r) = {r}

\* C6 witness: two concurrently submitted tasks, accepted in the order 2, 1,
\* have both resolved with different outcomes.
C6_Witness ==
    /\ accepted = <<2, 1>>
    /\ req[1].st = "resolved"
    /\ req[2].st = "resolved"
    /\ req[1].got.ok
    /\ ~req[2].got.ok

\* C7: soft failure: when the external procedure was started and exited with
\* a non-zero status, analyze returns, the slot carries and the handle receives
\* Ok(Output with suggestions None), whatever the scratch directory holds.
C7_SoftFailure ==
    \A r \in Reqs :
        (ext[r].event = "exited" /\ ext[r].status # 0) =>
            /\ (Held(r) /\ worker.pc = "send") => worker.ret = OkOutcome(None, r)
            /\ slot[r].st = "sent" => slot[r].val = OkOutcome(None, r)
            /\ req[r].st = "resolved" => req[r].got = OkOutcome(None, r)
            /\ req[r].st # "recv_error"

\* C7 witness: a handle resolved after a non-zero exit that left a well-formed
\* result file behind.
C7_Witness ==
    \E r \in Reqs :
        /\ ext[r] = [event |-> "exited", status |-> 1, file |-> FileJson(SampleUnits)]
        /\ req[r].st = "resolved"

\* C8: spawn failure: when the external procedure could not be started (the
\* command, its working directory or its scratch directory failed), the slot
\* carries and the handle receives an io error, never an Ok Output.
C8_SpawnFailure ==
    \A r \in Reqs :
        ext[r].event \in {"spawn_failed", "cwd_unresolved", "tempdir_failed"} =>
            /\ (Held(r) /\ worker.pc = "send") => worker.ret \in TerminalErrors(r)
            /\ slot[r].st = "sent" => slot[r].val \in TerminalErrors(r)
            /\ req[r].st = "resolved" => req[r].got \in TerminalErrors(r)
            /\ req[r].st # "recv_error"

\* C8 witness: a handle resolved after the command failed to start, and
\* another after the working directory failed to resolve.
C8_Witness ==
    /\ ext[1].event = "spawn_failed"
    /\ req[1].st = "resolved"
    /\ ext[2].event = "cwd_unresolved"
    /\ req[2].st = "resolved"

\* C9: parse failure: when the external procedure exited with success and the
\* result file is missing or malformed, the slot carries and the handle
\* receives an io error of the same shape as a spawn failure's, never an Ok
\* Output.
C9_ParseFailure ==
    \A r \in Reqs :
        (/\ ext[r].event = "exited"
         /\ ext[r].status = 0
         /\ ext[r].file.kind \in {"absent", "malformed"}) =>
            /\ (Held(r) /\ worker.pc = "send") => worker.ret \in TerminalErrors(r)
            /\ slot[r].st = "sent" => slot[r].val \in TerminalErrors(r)
            /\ req[r].st = "resolved" => req[r].got \in TerminalErrors(r)
            /\ req[r].st # "recv_error"

\* C9 witness: one handle resolved after a success exit with no result file,
\* another after a success exit with a malformed one.
C9_Witness ==
    /\ ext[1] = [event |-> "exited", status |-> 0, file |-> FileAbsent]
    /\ req[1].st = "resolved"
    /\ ext[2] = [event |-> "exited", status |-> 0, file |-> FileMalformed]
    /\ req[2].st = "resolved"

\* The six labels of the closed enumeration.
KnownLabels == {"happiness", "love", "anger", "sorrow", "hate", "surprise"}
IsKnown(unit) == unit.suggestion \in KnownLabels

\* C10: unknown-label filtering: the converted Output is Some sequence holding
\* exactly the records with a known label, in their original order, each with
\* its start and end unchanged and with the meme type of its label; records
\* with any other label are left out and the conversion never fails.
C10_UnknownLabelFiltering ==
    convDone =>
        LET kept == SelectSeq(convIn, IsKnown)
        IN  /\ IsSome(convOut)
            /\ Len(convOut[1]) = Len(kept)
            /\ \A i \in 1..Len(kept) :
                   /\ convOut[1][i].start = kept[i].start
                   /\ convOut[1][i].end = kept[i].end
                   /\ convOut[1][i].meme_type \in MemeType
                   /\ MemeTypeDesc(convOut[1][i].meme_type) = kept[i].suggestion
                   /\ convOut[1][i].meme_type_desc = kept[i].suggestion

\* C10 witness: a known record followed by an unknown one was converted to
\* the known record alone.
C10_Witness ==
    /\ convDone
    /\ convIn = <<[start |-> 0, end |-> 5, suggestion |-> "anger"],
                  [start |-> 5, end |-> 9, suggestion |-> "confusion"]>>
    /\ convOut = Some(<<NewSuggestion(0, 5, 2)>>)

\* r was accepted by the queue before o.
AcceptedBefore(r, o) ==
    \E i, j \in 1..Len(accepted) : i < j /\ accepted[i] = r /\ accepted[j] = o

\* C11 (the send): the worker's send for a task whose handle was dropped
\* stores nothing and raises nothing: the slot is closed with no send counted,
\* no other slot, no handler and not the queue is touched, and the worker is
\* back at recv holding nothing.
C11_SendIsNoOp ==
    \A r \in Reqs :
        (Held(r) /\ worker.pc = "send" /\ req[r].st = "abandoned" /\ worker' # worker) =>
            /\ worker'.pc = "recv"
            /\ worker'.cur = {}
            /\ slot'[r] = [slot[r] EXCEPT !.st = "closed"]
            /\ slot'[r].sends = 0
            /\ \A o \in Reqs \ {r} : slot'[o] = slot[o]
            /\ UNCHANGED <<req, queue, bufAlive, accepted, dir, procs>>

\* C11 (the loop): with a dropped handle anywhere, a running worker that has
\* a task queued or in hand can always take its next step, it has terminated
\* only on a closed and drained queue, and every task accepted after the
\* dropped one is still queued, in hand, or finished with its value sent.
C11_LoopGoesOn ==
    (\E a \in Reqs : req[a].st = "abandoned") =>
        /\ (WorkerAlive /\ (queue # <<>> \/ worker.cur # {})) => ENABLED WorkerStep
        /\ worker.pc \in {"notstarted", "dropped", "recv", "tempdir", "canonicalize",
                          "spawn", "running", "classify", "send", "terminated"}
        /\ worker.pc = "terminated" => (~bufAlive /\ queue = <<>> /\ worker.cur = {})
        /\ \A a, r \in Reqs :
              (req[a].st = "abandoned" /\ AcceptedBefore(a, r) /\ worker.pc # "dropped") =>
                  \/ Queued(r)
                  \/ Held(r)
                  \/ Finished(r) /\ (req[r].st = "abandoned" \/ slot[r].sends = 1)

DroppedUnsent(r) == worker.pc = "dropped" /\ r \in {accepted[i] : i \in 1..Len(accepted)}

\* C12 (what the caller gets): a handle that ended with the dropped-sender
\* signal had nothing sent into its slot and carries no Output, and the
\* handler answers it with an internal error.
C12_NoOutput ==
    \A r \in LiveReqs :
        /\ req[r].st = "recv_error" =>
              /\ slot[r].st = "closed"
              /\ slot[r].sends = 0
              /\ req[r].got = NoOutcome
              /\ Response(r) = [status |-> 500, body |-> None]
        /\ DroppedUnsent(r) => req[r].st \in {"awaiting", "recv_error", "abandoned"}
        /\ (DroppedUnsent(r) /\ Awaiting(r)) => slot[r].st = "closed"

\* C12: when the worker drops a task's sender without sending, the awaiting
\* caller resolves with the dropped-sender signal: it does not wait forever
\* and it never receives an Output.
C12_ChannelClosed ==
    /\ []C12_NoOutput
    /\ \A r \in LiveReqs :
          (DroppedUnsent(r) /\ Awaiting(r)) ~> (req[r].st \in {"recv_error", "abandoned"})

\* C12 witness: the task was queued when the VideoAnalyzer was dropped, and
\* its awaited handle resolved with the dropped-sender signal.
C12_Witness ==
    \E r \in LiveReqs :
        /\ DroppedUnsent(r)
        /\ req[r].st = "recv_error"
        /\ slot[r].sends = 0

\* The external procedure ran for r, exited with success and left a
\* well-formed result file with an empty result sequence.
EmptySuccess(r) == ext[r] = [event |-> "exited", status |-> 0, file |-> FileJson(<<>>)]
\* The external procedure ran for r and exited with a failure status.
SoftFailure(r) == ext[r].event = "exited" /\ ext[r].status # 0

\* C13 as stated: the Output has suggestions None both after a failure exit
\* and after a success exit with an empty result sequence, so the two cases
\* deliver the same Output.
C13_EmptyResultIsNone ==
    \A r \in Reqs :
        (req[r].st = "resolved" /\ (SoftFailure(r) \/ EmptySuccess(r))) =>
            req[r].got = OkOutcome(None, r)

\* C13 amended: suggestions are None exactly after a failure exit. A success
\* exit with a well-formed result file delivers Some(the converted
\* suggestions), and for an empty result sequence that is Some(<<>>), an
\* Output different from the soft failure's.
C13_AbsentOnlyOnFailure ==
    \A r \in Reqs :
        req[r].st = "resolved" =>
            /\ SoftFailure(r) => req[r].got = OkOutcome(None, r)
            /\ (ext[r].event = "exited" /\ ext[r].status = 0 /\ ext[r].file.kind = "json") =>
                  /\ req[r].got = OkOutcome(Some(FilterMapCollect(ext[r].file.units)), r)
                  /\ req[r].got.output # None
            /\ EmptySuccess(r) => req[r].got = OkOutcome(Some(<<>>), r)
            /\ (req[r].got.ok /\ req[r].got.output = None) <=> SoftFailure(r)

\* C13 witness: a handle resolved after a success exit with an empty result
\* sequence, and what it received is Some of the empty sequence.
C13_Witness ==
    \E r \in Reqs :
        /\ EmptySuccess(r)
        /\ req[r].st = "resolved"
        /\ req[r].got.output = Some(<<>>)

ServerErrors == {s \in 0..999 : s \div 100 = 5}
Successes == {s \in 0..999 : s \div 100 = 2}

\* C14 as stated: at the HTTP boundary a rejected submit, a dropped sender, a
\* spawn failure and a parse failure are all answered with a 5xx status; a
\* soft failure and a successful parse are answered with a 2xx status
\* carrying the Output; and no terminal error is answered with 2xx.
C14_TerminalErrorsAre5xx ==
    \A r \in Reqs :
        /\ req[r].st \in {"rejected", "recv_error"} => Response(r).status \in ServerErrors
        /\ (req[r].st = "resolved" /\ ~req[r].got.ok) =>
              /\ Response(r).status \in ServerErrors
              /\ Response(r).status \notin Successes
        /\ (req[r].st = "resolved" /\ req[r].got.ok) =>
              /\ Response(r).status \in Successes
              /\ Response(r).body = Some(req[r].got.output)

\* The worker's states: Idle is the loop blocked in (or about to call) recv,
\* Executing is an iteration of the loop body for the task in hand.
Idle == worker.pc = "recv"
Executing ==
    worker.pc \in {"tempdir", "canonicalize", "spawn", "running", "classify", "send"}

\* C15 (the steps): Executing is entered only from Idle and only by taking
\* the head of the queue; an iteration keeps its task; Executing is left only
\* to Idle, by the send step, with the outcome analyze returned pushed into
\* that task's slot (stored when its handle is still awaited); and Idle is
\* left only into Executing or, on a closed queue, into Terminated.
C15_Steps ==
    /\ (~Executing /\ Executing') =>
          /\ Idle
          /\ queue # <<>>
          /\ worker'.cur = {Head(queue)}
          /\ queue' = Tail(queue)
    /\ (Executing /\ Executing') => worker'.cur = worker.cur
    /\ (Executing /\ ~Executing') =>
          /\ worker.pc = "send"
          /\ Idle'
          /\ worker'.cur = {}
          /\ worker.ret # NoOutcome
          /\ \A t \in worker.cur :
                IF req[t.sender].st = "awaiting"
                THEN slot'[t.sender] = [st |-> "sent", val |-> worker.ret, sends |-> 1]
                ELSE slot'[t.sender].st = "closed"
    /\ (Idle /\ ~Idle') => (Executing' \/ worker'.pc = "terminated")

\* C15 (the states): the worker holds exactly one task while Executing and
\* none otherwise, and when it has begun a task, the send for every task
\* accepted before it has already been done.
C15_States ==
    /\ Executing => Cardinality(worker.cur) = 1
    /\ ~Executing => worker.cur = {}
    /\ \A r, o \in Reqs :
          (AcceptedBefore(r, o) /\ Began(o)) =>
              /\ slot[r].st \in {"sent", "taken", "closed"}
              /\ ~Held(r)
              /\ req[r].st # "abandoned" => slot[r].sends = 1

\* C15: the worker alternates Idle -> Executing(task) -> Idle: it starts
\* executing only by taking a task from the queue, returns to Idle only after
\* that task's outcome was pushed into its slot, and so the outcome of a task
\* is pushed before the invocation for the next one begins.
C15_WorkerStateMachine == [][C15_Steps]_vars /\ []C15_States

\* C15 witness: the worker went Idle -> Executing -> Idle twice: both tasks
\* were taken, answered with one send each, and the worker is Idle again.
C15_Witness ==
    /\ Idle
    /\ worker.cur = {}
    /\ Len(accepted) = 2
    /\ \A r \in {accepted[1], accepted[2]} : slot[r].sends = 1 /\ ext[r].event # "none"

Terminated == worker.pc = "terminated"

\* C16 (the states): the worker has terminated only with the queue closed
\* (its only sender dropped) and drained, holding nothing and with no
\* external procedure running; so it never terminates while a sender lives.
C16_OnlyOnClosedQueue ==
    /\ Terminated => (~bufAlive /\ queue = <<>> /\ worker.cur = {} /\ procs = {})
    /\ bufAlive => ~Terminated

\* C16 (the steps): once terminated the worker stays terminated and executes
\* nothing more: no task is taken, no procedure started, no slot written.
C16_TerminatedIsFinal ==
    Terminated =>
        /\ Terminated'
        /\ UNCHANGED <<worker, queue, procs, invoked, ext, dir, accepted>>
        /\ \A r \in Reqs : slot'[r].sends = slot[r].sends

\* C16: the worker loops until the queue is closed; once it is closed the
\* running worker drains it and eventually terminates, and then never
\* executes another task; while a sender is alive it never terminates.
C16_Shutdown ==
    /\ []C16_OnlyOnClosedQueue
    /\ [][C16_TerminatedIsFinal]_vars
    /\ (WorkerAlive /\ ~bufAlive) ~> Terminated

\* C16 witness: the queue was closed with a task accepted; the worker ran
\* that task to its end and then terminated.
C16_Witness ==
    /\ Terminated
    /\ ~bufAlive
    /\ \E r \in LiveReqs : accepted = <<r>> /\ Finished(r) /\ ext[r].event = "exited"

Accepted == {accepted[i] : i \in 1..Len(accepted)}
\* No request occurs twice in the history h.
NoRepeat(h) == \A i, j \in 1..Len(h) : h[i] = h[j] => i = j

C17_OnceWhenRun ==
    /\ NoRepeat(accepted)
    /\ NoRepeat(invoked)
    /\ worker.pc # "dropped" =>
          \A r \in Accepted :
              /\ Queued(r) \/ Held(r) \/ Finished(r)
              /\ ~(Queued(r) /\ Held(r))
              /\ ~(Queued(r) /\ Began(r))
              /\ Cardinality({i \in 1..Len(queue) : queue[i].sender = r}) <= 1
    /\ Terminated => \A r \in Accepted : Finished(r)
    /\ worker.pc = "dropped" =>
          \A r \in Accepted : ~Began(r) /\ slot[r].st = "closed" /\ slot[r].sends = 0

\* C17 amended (the steps): the worker takes into its hand only a task that
\* is waiting in the queue and was never handed to analyze before, and the
\* task leaves the queue by that step.
C17_TakenOnce ==
    \A r \in Reqs :
        (~Held(r) /\ Held(r)') =>
            /\ Queued(r)
            /\ ~Queued(r)'
            /\ ext[r] = NoRun
            /\ slot[r].sends = 0

C18_DropChangesNothing ==
    \A r \in Reqs :
        (req[r].st = "awaiting" /\ req'[r].st = "abandoned") =>
            /\ UNCHANGED <<worker, procs, dir, queue, bufAlive, accepted, invoked, ext>>
            /\ slot'[r].sends = slot[r].sends
            /\ \A o \in Reqs \ {r} : slot'[o] = slot[o] /\ req'[o] = req[o]

\* C18 (the invocation): whether or not the handle is still awaited, the
\* external procedure of the task in hand keeps running until it exits by
\* itself, and what analyze returns is the classification of what the
\* procedure did.
C18_RunsToCompletion ==
    \A r \in Reqs :
        Held(r) =>
            /\ worker.pc = "running" =>
                  /\ \E p \in procs : p.of = r
                  /\ ENABLED ProcessExit
            /\ (worker.pc = "send" /\ ext[r].event = "exited") =>
                  worker.ret = Classify(ext[r].status, ext[r].file, r)
            /\ (worker.pc = "send" /\ ext[r].event # "exited") =>
                  worker.ret \in TerminalErrors(r)

\* C18: cancellation does not preempt: dropping the handle of a task in
\* flight changes nothing in the worker or in the running invocation, which
\* runs to completion and is classified as if the handle were still awaited.
C18_NoPreemption == [][C18_DropChangesNothing]_vars /\ []C18_RunsToCompletion

\* C18 witness: the handle was dropped with nothing sent yet, and the
\* procedure of that task still ran to a success exit that analyze classified
\* as a successful Output.
C18_Witness ==
    \E r \in Reqs :
        /\ req[r].st = "abandoned"
        /\ slot[r].sends = 0
        /\ Held(r)
        /\ worker.pc = "send"
        /\ ext[r] = [event |-> "exited", status |-> 0, file |-> FileJson(SampleUnits)]
        /\ worker.ret = OkOutcome(OutputFromInference(SampleUnits), r)

ScratchDirs == {r \in Reqs : dir[r].exists}

\* C19: a scratch directory exists only during the invocation of the task in
\* the worker's hand, between TempDir::new_in and analyze's return: it is
\* that task's own (the one its external procedure was given, and no other
\* procedure's), at most one exists at any time, and none exists once
\* analyze has returned on whatever path, so none while the worker is Idle,
\* Terminated, or was never run.
C19_ScratchDirLifetime ==
    /\ Cardinality(ScratchDirs) <= 1
    /\ \A r \in ScratchDirs :
          /\ Held(r)
          /\ worker.out_dir = Some(r)
          /\ worker.pc \in {"canonicalize", "spawn", "running", "classify"}
    /\ worker.pc \in {"notstarted", "dropped", "recv", "tempdir", "send", "terminated"} =>
          (ScratchDirs = {} /\ worker.out_dir = None)
    /\ \A r \in Reqs : ~dir[r].exists => dir[r] = NoDir
    /\ \A r \in Reqs : (Finished(r) \/ (Held(r) /\ worker.pc = "send")) => ~dir[r].exists
    /\ \A p \in procs :
          /\ p.args[7] = p.of
          /\ p.of \in ScratchDirs
          /\ \A q \in procs : q.args[7] = p.args[7] => q = p

\* C19 witness: one invocation ended on an error path after its scratch
\* directory was created, that directory is gone, and the next task's
\* invocation now has its own.
C19_Witness ==
    \E r, o \in Reqs :
        /\ ext[r].event \in {"cwd_unresolved", "spawn_failed"}
        /\ Finished(r)
        /\ ~dir[r].exists
        /\ Held(o)
        /\ ScratchDirs = {o}
        /\ worker.pc = "running"

\* The task of request r with its analysis mode replaced by m.
WithMode(r, m) == [BuildTask(r) EXCEPT !.analyze_mode = m]
\* What the caller of r received, the task's name left out.
Received(r) == [ok |-> req[r].got.ok, output |-> req[r].got.output, err |-> req[r].got.err]

\* C20: the analysis mode is inert: the external command started for a task
\* has the arguments it would have for the same task in any other mode, and
\* two requests submitted in different modes for which the environment
\* behaved the same way received the same outcome.
C20_ModeInert ==
    /\ \A p \in procs : \A m \in VideoAnalyzerMode :
          p.args = CommandArgs(WithMode(p.of, m), p.args[7])
    /\ \A r, o \in Reqs :
          (/\ FormMode(r) # FormMode(o)
           /\ req[r].st = "resolved"
           /\ req[o].st = "resolved"
           /\ ext[r] = ext[o]) => Received(r) = Received(o)

\* C20 witness: a Binary and a Multi request ran, the external procedure did
\* the same for both, and both received the same successful Output.
C20_Witness ==
    /\ BuildTask(1).analyze_mode = "Binary"
    /\ BuildTask(2).analyze_mode = "Multi"
    /\ req[1].st = "resolved"
    /\ req[2].st = "resolved"
    /\ ext[1] = [event |-> "exited", status |-> 0, file |-> FileJson(SampleUnits)]
    /\ ext[2] = ext[1]
    /\ Received(1) = Received(2)
    /\ Received(1).ok

\* analyze ended (or is about to end) in a terminal error for r: the
\* external procedure could not be started, or it exited with success and
\* left no result file that can be read and parsed.
SpawnFailed(r) == ext[r].event \in {"tempdir_failed", "cwd_unresolved", "spawn_failed"}
ParseFailed(r) ==
    ext[r].event = "exited" /\ ext[r].status = 0 /\ ext[r].file.kind # "json"
TerminalFailure(r) == SpawnFailed(r) \/ ParseFailed(r)

\* C21 (the send): the send step for a task that ended in a terminal error
\* stores that error in the task's own slot (when its handle is awaited),
\* touches no other slot and leaves the worker Idle, holding nothing, with
\* the queue as it was.
C21_ErrorIsSent ==
    \A r \in Reqs :
        (Held(r) /\ TerminalFailure(r) /\ worker.pc = "send" /\ worker' # worker) =>
            /\ Idle'
            /\ worker'.cur = {}
            /\ queue' = queue
            /\ worker.ret \in TerminalErrors(r)
            /\ Awaiting(r) => slot'[r] = [st |-> "sent", val |-> worker.ret, sends |-> 1]
            /\ \A o \in Reqs \ {r} : slot'[o] = slot[o]

\* C21 (the loop): a task that ends in a terminal error leaves the worker in
\* its loop: in hand it is at the classification or at the send with the
\* error as analyze's result, and the worker can step; the worker has
\* terminated only on a closed and drained queue; and every task accepted
\* after the failed one is still queued, in hand or finished, with an outcome
\* that is the classification of what the environment did for that task alone.
C21_LoopSurvives ==
    \A r \in Reqs :
        TerminalFailure(r) =>
            /\ Held(r) =>
                  /\ worker.pc \in {"classify", "send"}
                  /\ worker.pc = "send" => worker.ret \in TerminalErrors(r)
                  /\ ENABLED WorkerStep
            /\ (WorkerAlive /\ queue # <<>>) => ENABLED WorkerStep
            /\ Terminated => (~bufAlive /\ queue = <<>> /\ worker.cur = {})
            /\ \A o \in Reqs :
                  (AcceptedBefore(r, o) /\ worker.pc # "dropped") =>
                      /\ Queued(o) \/ Held(o) \/ Finished(o)
                      /\ Began(o) => Finished(r)
                      /\ (req[o].st = "resolved" /\ ext[o].event = "exited") =>
                            req[o].got = Classify(ext[o].status, ext[o].file, o)
                      /\ req[o].st = "resolved" => req[o].got.of = o

QueueDropNext ==
    \/ \E r \in Reqs : Submit(r)
    \/ \E r \in Reqs : Resolve(r)
    \/ \E r \in Reqs : Queued(r) /\ Abandon(r)
    \/ DropBuffer
    \/ Run
    \/ DropAnalyzer
    \/ WorkerStep

QueueDropSpec == Init /\ [][QueueDropNext]_vars

Abandoned(r) == req[r].st = "abandoned"

\* C22 (the take): a task whose handle was dropped leaves the queue of a
\* running worker only from the head and only into the worker's hand, at
\* the start of analyze, with its slot untouched.
C22_TakenNotSkipped ==
    \A r \in Reqs :
        (Abandoned(r) /\ Queued(r) /\ ~Queued(r)' /\ worker.pc # "notstarted") =>
            /\ Head(queue).sender = r
            /\ Held(r)'
            /\ worker'.pc = "tempdir"
            /\ slot'[r] = slot[r]
            /\ ext[r] = NoRun

\* C22 (the invocation): an abandoned task of a worker that runs is waiting,
\* in hand or finished; in hand, the worker goes through analyze for it as
\* for any task and the external procedure started with its arguments keeps
\* running; finished, analyze did run for it and nothing was ever sent into
\* its slot; and no task accepted after it is begun before its whole
\* iteration, the invocation included, is over.
C22_RunsInFull ==
    \A r \in Accepted :
        (Abandoned(r) /\ worker.pc # "dropped") =>
            /\ Queued(r) \/ Held(r) \/ Finished(r)
            /\ Held(r) =>
                  /\ ENABLED WorkerStep
                  /\ worker.pc = "running" =>
                        [of |-> r, args |-> CommandArgs(BuildTask(r), r)] \in procs
                  /\ (worker.pc = "send" /\ ext[r].event = "exited") =>
                        worker.ret = Classify(ext[r].status, ext[r].file, r)
            /\ Finished(r) =>
                  /\ ext[r] # NoRun
                  /\ slot[r] = [st |-> "closed", val |-> NoOutcome, sends |-> 0]
            /\ \A o \in Reqs :
                  AcceptedBefore(r, o) =>
                      /\ Began(o) => (Finished(r) /\ InvocationOver(r))
                      /\ ~Finished(r) => (Queued(o) /\ ext[o] = NoRun)

\* C22: a task whose handle was abandoned while it waited in the queue is
\* not skipped: at the head of the queue it is taken, the external procedure
\* is run for it to completion and only the send is discarded; the tasks
\* behind it wait for that whole invocation.
C22_AbandonedInQueueStillRuns == [][C22_TakenNotSkipped]_vars /\ []C22_RunsInFull

\* C22 witness: the first task's handle was dropped while it was queued; the
\* external procedure still ran for it and exited, nothing was sent, and only
\* now is the procedure of the task behind it running.
C22_Witness ==
    \E r, o \in Reqs :
        /\ accepted = <<r, o>>
        /\ Abandoned(r)
        /\ ext[r].event = "exited"
        /\ invoked = <<r, o>>
        /\ slot[r] = [st |-> "closed", val |-> NoOutcome, sends |-> 0]
        /\ Held(o)
        /\ Awaiting(o)
        /\ worker.pc = "running"

====
